---- MODULE Spec2Model ----
(***************************************************************************)
(* Model of the load-generation harness in src/perf/stress_test.py:        *)
(* one batch of run_stress_test (a bounded thread pool running run_job),   *)
(* the submit/poll state machine of run_job, and the pure metrics          *)
(* (StressResult properties and percentile).                               *)
(* Model of the experiment driver in src/perf/run_experiments.py: main     *)
(* with ensure_scale and scale_cluster, the worker sweep and the paragraph *)
(* sweep over execute_setting, _derive_seed and compute_summary.           *)
(*                                                                         *)
(* Time is discrete.  CPU steps take no time; an HTTP exchange takes       *)
(* between 0 and request_timeout ticks; time.sleep(poll_interval) takes    *)
(* poll_interval ticks.  perf_counter() differences are kept as per-job    *)
(* timers: elapsed = perf_counter() - start of wait_for_job, so the loop   *)
(* condition perf_counter() < deadline reads elapsed < poll_timeout.       *)
(* Floating point is modelled by exact rational arithmetic: a percentile   *)
(* is kept multiplied by 100, a quotient as a numerator/denominator pair.  *)
(***************************************************************************)
EXTENDS Integers, Sequences, FiniteSets, TLC

VARIABLES
    mode,            \* which program runs: "batch", "percentile", "metrics",
                     \* "seed", "sweep", "summary"; a pure function's mode
                     \* ends in "_returned" after the call
    config,          \* StressConfig: jobs, concurrency, poll_interval,
                     \* poll_timeout, request_timeout
    bpc,             \* position of run_stress_test: "running", "returned",
                     \* "aborted" (a future's exception left it), None: not called
    job,             \* job[j]: the j-th future / run_job invocation
    runs,            \* the list built from as_completed(futures)
    clock,           \* perf_counter() - start of run_stress_test
    total_duration,  \* StressResult.total_duration once returned
    pin,             \* arguments of the pure function under check
    pout,            \* its result
    syn,             \* two executions of one seeded batch: the generator
                     \* and the text of every job (synthesize_text)
    ecfg,            \* run_experiments.main: args and ExperimentConfig
    opc,             \* position of main inside the sweeps
    cell,            \* the sweep, the index of its setting, and run_idx
    current,         \* scaler_state["current"]
    setting_results, \* execute_setting: setting_results
    sweep_results,   \* run_worker_sweep / run_paragraph_sweep: results
    results,         \* main: results
    csv,             \* the rows of the CSV file, in file order
    calls,           \* the scale_cluster calls made so far, in order
    batches,         \* the StressConfig of every run_stress_test call
    summary          \* compute_summary(results) once main has computed it

sweepVars == <<ecfg, opc, cell, current, setting_results, sweep_results,
               results, csv, calls, batches, summary>>

vars == <<mode, config, bpc, job, runs, clock, total_duration, pin, pout,
          syn, sweepVars>>

batchVars == <<config, bpc, job, runs, clock, total_duration>>

(* ---------------------------- bounds ---------------------------------- *)
MaxJobs == 2
MaxConcurrency == 2
MaxPollTimeout == 2
MaxPollInterval == 1
MaxRequestTimeout == 1
MaxLen == 3
MaxVal == 2
MaxDuration == 2

(* ------------------------- small helpers ------------------------------ *)
Min(a, b) == IF a < b THEN a ELSE b

\* Python's None.
None == "None"

\* An optional integer (int | None): Absent is None, Some(v) is the int v.
Absent == <<>>

Some(v) == <<v>>

\* main of run_experiments.py is not running.
NoSweep ==
    /\ ecfg = None
    /\ opc = None
    /\ cell = None
    /\ current = Absent
    /\ setting_results = <<>>
    /\ sweep_results = <<>>
    /\ results = <<>>
    /\ csv = <<>>
    /\ calls = <<>>
    /\ batches = <<>>
    /\ summary = None

\* No text is being synthesized.
NoSynthesis == syn = None

(* ------------------------ exceptions ---------------------------------- *)
\* The classes that can reach run_job's handler, with their base class.
Base(cls) ==
    CASE cls = "HTTPError" -> "URLError"
      [] cls = "URLError" -> "OSError"
      [] cls = "TimeoutError" -> "OSError"
      [] cls = "OSError" -> "Exception"
      [] cls = "JSONDecodeError" -> "ValueError"
      [] cls = "ValueError" -> "Exception"
      [] cls = "RuntimeError" -> "Exception"
      [] cls = "Exception" -> "BaseException"
      [] OTHER -> "object"

RECURSIVE IsInstance(_, _)
IsInstance(cls, of) ==
    IF cls = of THEN TRUE
    ELSE IF cls = "object" THEN FALSE
    ELSE IsInstance(Base(cls), of)

Exc(cls, msg) == [cls |-> cls, msg |-> msg]

NoExc == Exc("object", "")

\* str(exc) of urllib.error.HTTPError: "HTTP Error <code>: <reason>"
HTTPErrorStr(code) ==
    CASE code = 404 -> "HTTP Error 404: Not Found"
      [] code = 503 -> "HTTP Error 503: Service Unavailable"
      [] code = 500 -> "HTTP Error 500: Internal Server Error"
      [] OTHER -> "HTTP Error"

MissingJobIdMsg == "Producer response missing jobId: {}"

PollTimeoutMsg == "Job id did not finish within poll_timeout s"

(* ------------------------ HTTP transport ------------------------------ *)
\* What an endpoint can answer to one request: an HTTP status with a body
\* (json: the body parses as a JSON object; jobId: its "jobId" member, None
\* when absent), or a failure of the transport.
Reply(kind, code, json, jobId) ==
    [kind |-> kind, code |-> code, json |-> json, jobId |-> jobId]

NoReply == Reply("none", 0, FALSE, None)

\* Answers of the submission endpoint (producer).
SubmitReplies ==
    { Reply("status", 200, TRUE, "job-1"),
      Reply("status", 200, TRUE, None),
      Reply("status", 200, TRUE, ""),
      Reply("status", 200, FALSE, None),
      Reply("status", 500, FALSE, None),
      Reply("urlerror", 0, FALSE, None) }

\* Answers of the status endpoint (aggregator).
StatusReplies ==
    { Reply("status", c, TRUE, None) : c \in {200, 202, 404, 503, 500} }
    \cup { Reply("urlerror", 0, FALSE, None),
           Reply("sockettimeout", 0, FALSE, None) }

\* urlopen: a 2xx response is returned, any other status raises HTTPError,
\* a connection failure raises URLError, a timeout while reading the
\* response raises the bare TimeoutError of the socket layer.
UrlopenRaises(r) ==
    CASE r.kind = "status" /\ (r.code < 200 \/ r.code >= 300)
            -> Exc("HTTPError", HTTPErrorStr(r.code))
      [] r.kind = "urlerror" -> Exc("URLError", "<urlopen error refused>")
      [] r.kind = "sockettimeout" -> Exc("TimeoutError", "timed out")
      [] OTHER -> NoExc

(* ----------------------------- JobRun --------------------------------- *)
JobRun(job_id, submit_seconds, completion_seconds, success, error) ==
    [job_id |-> job_id, submit_seconds |-> submit_seconds,
     completion_seconds |-> completion_seconds, success |-> success,
     error |-> error]

\* Placeholder of a future that has no result yet.
NoRun == JobRun("", 0, 0, FALSE, None)

(* --------------------------- submit_job ------------------------------- *)
\* submit_job without the check of the identifier.
submit_job_unchecked(r) ==
    LET e == UrlopenRaises(r) IN
    IF e # NoExc THEN [exc |-> e, ret |-> ""]
    ELSE IF ~r.json
        THEN [exc |-> Exc("JSONDecodeError", "Expecting value: line 1 column 1 (char 0)"),
              ret |-> ""]
    ELSE [exc |-> NoExc, ret |-> r.jobId]

\* Outcome of submit_job for the producer's reply r: the exception it
\* raises (NoExc if none) and the identifier it returns.
submit_job(r) ==
    LET e == UrlopenRaises(r) IN
    IF e # NoExc THEN [exc |-> e, ret |-> ""]
    ELSE IF ~r.json
        THEN [exc |-> Exc("JSONDecodeError", "Expecting value: line 1 column 1 (char 0)"),
              ret |-> ""]
    ELSE IF r.jobId = None \/ r.jobId = ""
        THEN [exc |-> Exc("RuntimeError", MissingJobIdMsg), ret |-> ""]
    ELSE [exc |-> NoExc, ret |-> r.jobId]

(* -------------------------- wait_for_job ------------------------------ *)
\* One pass of the try statement in the poll loop for the aggregator's
\* reply r: "return" (status 200), "sleep" (fall through to time.sleep),
\* or "raise" with the exception that leaves wait_for_job.
PollBody(r) ==
    LET e == UrlopenRaises(r) IN
    IF e = NoExc
        THEN IF r.code = 200 THEN [act |-> "return", exc |-> NoExc]
                             ELSE [act |-> "sleep", exc |-> NoExc]
    ELSE IF IsInstance(e.cls, "HTTPError")
        THEN IF r.code \notin {404, 503} THEN [act |-> "raise", exc |-> e]
                                          ELSE [act |-> "sleep", exc |-> NoExc]
    ELSE IF IsInstance(e.cls, "URLError")
        THEN [act |-> "sleep", exc |-> NoExc]
    ELSE [act |-> "raise", exc |-> e]

\* The loop condition written with <= instead of <.
BeforeOrAtDeadline(elapsed) == elapsed <= config.poll_timeout

\* The loop condition: perf_counter() < deadline.
BeforeDeadline(elapsed) == elapsed < config.poll_timeout

(* ------------------------------ run_job ------------------------------- *)
\* A handler that catches OSError only.
CatchesOnlyOSError(e) == IsInstance(e.cls, "OSError")

\* except Exception as exc
RunJobCatches(e) == IsInstance(e.cls, "Exception")

\* str(exc)
ExcStr(e) == e.msg

\* A handler that drops the error text.
FailedRunNoError(e) == JobRun("", 0, 0, FALSE, None)

\* A handler that gives the failed run a placeholder identifier.
FailedRunNamed(e) == JobRun("unknown", 0, 0, FALSE, ExcStr(e))

\* The JobRun built by the handler of run_job.
FailedRun(e) == JobRun("", 0, 0, FALSE, ExcStr(e))

\* A success path that forgets the submission time in the total.
SucceededRunPollOnly(job_id, submit_duration, completed) ==
    JobRun(job_id, submit_duration, completed, TRUE, None)

\* total = submit_duration + completed; the JobRun of the success path.
SucceededRun(job_id, submit_duration, completed) ==
    JobRun(job_id, submit_duration, submit_duration + completed, TRUE, None)

\* An exception e raised inside the try block of run_job of future jr.
Raised(jr, e) ==
    IF RunJobCatches(e)
        THEN [jr EXCEPT !.pc = "done", !.t = 0, !.run = FailedRun(e)]
        ELSE [jr EXCEPT !.pc = "raised"]

\* A future before a pool thread takes it.  Besides the locals of run_job
\* and wait_for_job (t: time spent in the current exchange or sleep) it
\* records what the job has done on the wire: posts and gets count the
\* requests sent to the producer and to the aggregator, sreply and last are
\* the last answers received from them, transients counts the 404/503
\* answers of the aggregator.
QueuedJob ==
    [pc |-> "queued", t |-> 0, submit_duration |-> 0, elapsed |-> 0,
     job_id |-> "", posts |-> 0, gets |-> 0, transients |-> 0,
     sreply |-> NoReply, last |-> NoReply, run |-> NoRun]

\* A future whose result the main thread has taken.
CollectedJob == [QueuedJob EXCEPT !.pc = "collected"]

Jobs == 1 .. config.jobs

InFlightPcs == {"synth", "submit", "poll_check", "poll_req", "poll_sleep"}

InFlight == {j \in Jobs : job[j].pc \in InFlightPcs}

Queued == {j \in Jobs : job[j].pc = "queued"}

(* ------------------------- run_stress_test ---------------------------- *)
\* A pool that starts a thread for every future.
PoolUnbounded == TRUE

\* ThreadPoolExecutor(max_workers=config.concurrency): a pool thread is
\* free to take the next queued future.
PoolHasIdleWorker == Cardinality(InFlight) < config.concurrency

\* The batch after pool.submit of every job: start taken, all futures queued.
InitRun(configs) ==
    /\ mode = "batch"
    /\ config \in configs
    /\ bpc = "running"
    /\ job = [j \in 1 .. config.jobs |-> QueuedJob]
    /\ runs = <<>>
    /\ clock = 0
    /\ total_duration = 0
    /\ pin = None
    /\ pout = None
    /\ NoSynthesis
    /\ NoSweep

\* Batches of up to MaxJobs jobs on up to MaxConcurrency pool threads, with
\* the shortest timing: one tick for each of the three durations.
InitBatch ==
    InitRun([jobs : 0 .. MaxJobs, concurrency : 1 .. MaxConcurrency,
             poll_interval : {1}, poll_timeout : {1}, request_timeout : {1}])

\* Batches of one job, over every timing within the bounds.
InitJob ==
    InitRun([jobs : {1}, concurrency : 1 .. MaxConcurrency,
             poll_interval : 1 .. MaxPollInterval,
             poll_timeout : 1 .. MaxPollTimeout,
             request_timeout : 1 .. MaxRequestTimeout])

Running == mode = "batch" /\ bpc = "running"

\* A pool thread takes the oldest queued future and calls run_job.
Dispatch(j) ==
    /\ Running
    /\ j \in Queued
    /\ \A k \in Queued : j <= k
    /\ PoolHasIdleWorker
    /\ job' = [job EXCEPT ![j].pc = "synth"]
    /\ UNCHANGED <<mode, config, bpc, runs, clock, total_duration, pin, pout, syn, sweepVars>>

\* run_job: text = synthesize_text(...); submit_start; the POST is sent.
Synthesize(j) ==
    /\ Running
    /\ j \in Jobs
    /\ job[j].pc = "synth"
    /\ job' = [job EXCEPT ![j].pc = "submit", ![j].t = 0,
                           ![j].posts = job[j].posts + 1]
    /\ UNCHANGED <<mode, config, bpc, runs, clock, total_duration, pin, pout, syn, sweepVars>>

\* submit_job returns or raises; on return submit_duration is taken and
\* wait_for_job takes start and deadline.
SubmitReturns(j) ==
    /\ Running
    /\ j \in Jobs
    /\ job[j].pc = "submit"
    /\ \E r \in SubmitReplies :
          LET o == submit_job(r)
              jr == [job[j] EXCEPT !.sreply = r]
          IN
          job' = [job EXCEPT ![j] =
                    IF o.exc # NoExc
                        THEN Raised(jr, o.exc)
                        ELSE [jr EXCEPT !.pc = "poll_check",
                                            !.job_id = o.ret,
                                            !.submit_duration = job[j].t,
                                            !.elapsed = 0,
                                            !.t = 0]]
    /\ UNCHANGED <<mode, config, bpc, runs, clock, total_duration, pin, pout, syn, sweepVars>>

\* wait_for_job: the while condition; past the deadline TimeoutError is
\* raised, otherwise the status query is sent.
PollCheck(j) ==
    /\ Running
    /\ j \in Jobs
    /\ job[j].pc = "poll_check"
    /\ job' = [job EXCEPT ![j] =
                 IF BeforeDeadline(job[j].elapsed)
                     THEN [job[j] EXCEPT !.pc = "poll_req", !.t = 0,
                                         !.gets = job[j].gets + 1]
                     ELSE Raised(job[j], Exc("TimeoutError", PollTimeoutMsg))]
    /\ UNCHANGED <<mode, config, bpc, runs, clock, total_duration, pin, pout, syn, sweepVars>>

\* wait_for_job: the status query returns or raises.
PollReturns(j) ==
    /\ Running
    /\ j \in Jobs
    /\ job[j].pc = "poll_req"
    /\ \E r \in StatusReplies :
          LET o == PollBody(r)
              jr == [job[j] EXCEPT !.last = r,
                        !.transients = IF r.kind = "status" /\ r.code \in {404, 503}
                                          THEN job[j].transients + 1
                                          ELSE job[j].transients]
          IN  job' = [job EXCEPT ![j] =
                CASE o.act = "return" ->
                        [jr EXCEPT !.pc = "done", !.t = 0,
                                   !.run = SucceededRun(jr.job_id,
                                             jr.submit_duration, jr.elapsed)]
                  [] o.act = "sleep" -> [jr EXCEPT !.pc = "poll_sleep", !.t = 0]
                  [] OTHER -> Raised(jr, o.exc)]
    /\ UNCHANGED <<mode, config, bpc, runs, clock, total_duration, pin, pout, syn, sweepVars>>

\* wait_for_job: time.sleep(poll_interval) returns.
PollWake(j) ==
    /\ Running
    /\ j \in Jobs
    /\ job[j].pc = "poll_sleep"
    /\ job[j].t >= config.poll_interval
    /\ job' = [job EXCEPT ![j].pc = "poll_check", ![j].t = 0]
    /\ UNCHANGED <<mode, config, bpc, runs, clock, total_duration, pin, pout, syn, sweepVars>>

\* as_completed yields a finished future; future.result() returns its
\* JobRun or re-raises what run_job raised.
Collect(j) ==
    /\ Running
    /\ j \in Jobs
    /\ job[j].pc \in {"done", "raised"}
    /\ IF job[j].pc = "done"
          THEN /\ runs' = Append(runs, [fut |-> j, run |-> job[j].run])
               /\ job' = [job EXCEPT ![j] = CollectedJob]
               /\ bpc' = bpc
          ELSE /\ bpc' = "aborted"
               /\ UNCHANGED <<runs, job>>
    /\ UNCHANGED <<mode, config, clock, total_duration, pin, pout, syn, sweepVars>>

\* Every future was yielded: the pool shuts down, total_duration is taken
\* and the StressResult is returned.
Return ==
    /\ Running
    /\ \A j \in Jobs : job[j].pc = "collected"
    /\ bpc' = "returned"
    /\ total_duration' = clock
    /\ UNCHANGED <<mode, config, job, runs, clock, pin, pout, syn, sweepVars>>

\* Jobs inside an HTTP exchange, and jobs inside time.sleep.
InExchange == {j \in Jobs : job[j].pc \in {"submit", "poll_req"}}

Sleeping == {j \in Jobs : job[j].pc = "poll_sleep"}

\* One tick of time passes: no thread is at a CPU step, every exchange
\* stays within request_timeout, every sleep within poll_interval.
Tick ==
    /\ Running
    /\ InExchange \cup Sleeping # {}
    /\ \A j \in Jobs : job[j].pc \notin {"synth", "poll_check"}
    /\ \A j \in InExchange : job[j].t < config.request_timeout
    /\ \A j \in Sleeping : job[j].t < config.poll_interval
    /\ job' = [j \in Jobs |->
                 IF j \in InExchange \cup Sleeping
                     THEN [job[j] EXCEPT !.t = job[j].t + 1,
                              !.elapsed = IF job[j].pc = "submit"
                                             THEN job[j].elapsed
                                             ELSE job[j].elapsed + 1]
                     ELSE job[j]]
    /\ clock' = clock + 1
    /\ UNCHANGED <<mode, config, bpc, runs, total_duration, pin, pout, syn, sweepVars>>

NextBatch ==
    \/ \E j \in Jobs : Dispatch(j)
    \/ \E j \in Jobs : Synthesize(j)
    \/ \E j \in Jobs : SubmitReturns(j)
    \/ \E j \in Jobs : PollCheck(j)
    \/ \E j \in Jobs : PollReturns(j)
    \/ \E j \in Jobs : PollWake(j)
    \/ \E j \in Jobs : Collect(j)
    \/ Return
    \/ Tick

Spec == InitBatch /\ [][NextBatch]_vars

SpecJob == InitJob /\ [][NextBatch]_vars

\* The threads keep running, every HTTP exchange returns and the clock
\* advances: the batch does not stop while a step is possible.
FairSpec == SpecJob /\ WF_vars(NextBatch)

(* ---------------------------- percentile ------------------------------ *)
\* Insert x into the ascending sequence s.
RECURSIVE Insert(_, _)
Insert(s, x) ==
    IF s = <<>> THEN <<x>>
    ELSE IF x <= Head(s) THEN <<x>> \o s
    ELSE <<Head(s)>> \o Insert(Tail(s), x)

\* A percentile that takes the values in the order given.
Unsorted(values) == values

\* sorted(values)
RECURSIVE Sorted(_)
Sorted(values) ==
    IF values = <<>> THEN <<>>
    ELSE Insert(Sorted(Tail(values)), Head(values))

\* What reading an index outside the list yields in place of a value
\* (Python raises IndexError).
IndexError == 0 - 1

\* seq[i] with Python's indices 0 .. len(seq) - 1.
At(seq, i) == IF i \in 0 .. Len(seq) - 1 THEN seq[i + 1] ELSE IndexError

\* The upper index without the clamp to the last element.
CeilIndexUnclamped(f, n) == f + 1

\* c = min(f + 1, len(seq) - 1)
CeilIndex(f, n) == Min(f + 1, n - 1)

\* percentile(values, pct) for pct a whole number of percent.  k is kept as
\* k100 = 100 * k and the result as value100 = 100 * result; reads are the
\* indices of seq the call reads.
percentile(values, pct) ==
    LET seq == Sorted(values)
        n == Len(seq)
        k100 == (n - 1) * pct
        f == k100 \div 100
        c == CeilIndex(f, n)
    IN  IF seq = <<>> THEN [value100 |-> 0, reads |-> {}]
        ELSE IF f = c THEN [value100 |-> 100 * At(seq, f), reads |-> {f}]
        ELSE [value100 |-> At(seq, f) * (100 * c - k100)
                             + At(seq, c) * (k100 - 100 * f),
              reads |-> {f, c}]

(* ---------------------------- StressResult ---------------------------- *)
\* A quotient of two numbers, and the float 0.0.
Frac(num, den) == [num |-> num, den |-> den]

Zero == Frac(0, 1)

RECURSIVE Sum(_)
Sum(s) == IF s = <<>> THEN 0 ELSE Head(s) + Sum(Tail(s))

Succeeded(run) == run.success

\* A success subset that keeps every run.
all_runs(result) == result.runs

\* StressResult.success_runs
success_runs(result) == SelectSeq(result.runs, Succeeded)

Failed(run) == ~run.success

\* StressResult.failure_runs
failure_runs(result) == SelectSeq(result.runs, Failed)

\* StressResult.throughput
throughput(result) ==
    LET successes == Len(success_runs(result)) IN
    IF result.total_duration # 0
        THEN Frac(successes, result.total_duration)
        ELSE Zero

\* The completion_seconds of a list of runs.
Durations(rs) == [i \in DOMAIN rs |-> rs[i].completion_seconds]

\* StressResult.avg_latency: statistics.mean over the successes.
avg_latency(result) ==
    LET successes == success_runs(result) IN
    IF successes = <<>> THEN Zero
    ELSE Frac(Sum(Durations(successes)), Len(successes))

\* StressResult.p95_latency, multiplied by 100.
p95_latency(result) ==
    LET successes == success_runs(result) IN
    IF successes = <<>> THEN 0
    ELSE percentile(Durations(successes), 95).value100

\* StressResult.to_dict, without the config.
to_dict(result) ==
    [total_duration |-> result.total_duration,
     throughput |-> throughput(result),
     avg_latency |-> avg_latency(result),
     p95_latency |-> p95_latency(result),
     successes |-> Len(success_runs(result)),
     failures |-> Len(failure_runs(result))]

(* ----------------- the pure functions, on drawn inputs ---------------- *)
\* No batch is running.
NoBatch ==
    /\ config = [jobs |-> 0, concurrency |-> 1, poll_interval |-> 1,
                 poll_timeout |-> 1, request_timeout |-> 1]
    /\ bpc = None
    /\ job = <<>>
    /\ runs = <<>>
    /\ clock = 0
    /\ total_duration = 0

\* Samples of up to MaxLen values in 0 .. MaxVal, in any order.
Samples == UNION {[1 .. n -> 0 .. MaxVal] : n \in 0 .. MaxLen}

InitPercentile ==
    /\ mode = "percentile"
    /\ pin \in [values : Samples, pct : 0 .. 100]
    /\ pout = None
    /\ NoBatch
    /\ NoSynthesis
    /\ NoSweep

PercentileCall ==
    /\ mode = "percentile"
    /\ mode' = "percentile_returned"
    /\ pout' = percentile(pin.values, pin.pct)
    /\ UNCHANGED <<pin, batchVars, syn, sweepVars>>

SpecPercentile == InitPercentile /\ [][PercentileCall]_vars

\* The JobRuns run_job builds: a success with its times, or a failure.
RunShapes ==
    {SucceededRun("job-1", 0, c) : c \in 0 .. MaxVal}
    \cup {FailedRun(Exc("TimeoutError", PollTimeoutMsg))}

InitMetrics ==
    /\ mode = "metrics"
    /\ pin \in [total_duration : 0 .. MaxDuration,
                 runs : UNION {[1 .. n -> RunShapes] : n \in 0 .. MaxLen}]
    /\ pout = None
    /\ NoBatch
    /\ NoSynthesis
    /\ NoSweep

MetricsCall ==
    /\ mode = "metrics"
    /\ mode' = "metrics_returned"
    /\ pout' = to_dict(pin)
    /\ UNCHANGED <<pin, batchVars, syn, sweepVars>>

SpecMetrics == InitMetrics /\ [][MetricsCall]_vars

(* ------------- synthesize_text under a seeded generator --------------- *)
\* sentences_per_paragraph
SentencesPerParagraph == 5

\* One step of the process-wide generator of module random.  The generator
\* is deterministic: a full-period congruential sequence stands for it.
RngNext(s) == (5 * s + 3) % 16

\* random.seed(seed): the state the seed puts the generator in.
RngSeed(seed) == seed % 16

\* random_sentence(): three random.choice calls, over the 10 sentences, the
\* 6 modifiers and the 3 punctuation marks, each taking the next output of
\* the process-wide generator; the sentence is kept as the three choices.
random_sentence(s) ==
    LET s1 == RngNext(s)
        s2 == RngNext(s1)
        s3 == RngNext(s2)
    IN  [sentence |-> <<s1 % 10, s2 % 6, s3 % 3>>, rng |-> s3]

\* A future of the seeded batch before a pool thread takes it.
QueuedText == [pc |-> "queued", text |-> <<>>]

\* run_stress_test: if config.seed is not None
Reseeds(seed) == seed # Absent

\* run_stress_test up to pool.submit: random.seed(config.seed) when a seed
\* is given, then every job is queued.
SeededBatch(cfg, rng) ==
    [rng |-> IF Reseeds(cfg.seed) THEN RngSeed(cfg.seed[1]) ELSE rng,
     job |-> [j \in 1 .. cfg.jobs |-> QueuedText]]

\* Two executions of the same seeded configuration, one after the other;
\* first keeps the texts of the first execution.
InitSeed ==
    /\ mode = "seed"
    /\ \E cfg \in [jobs : 1 .. MaxJobs, concurrency : 1 .. MaxConcurrency,
                   paragraphs : {1}, seed : {Some(0), Some(1)}],
          rng \in 0 .. 15 :
          syn = [cfg |-> cfg, exec |-> 1, first |-> <<>>]
                    @@ SeededBatch(cfg, rng)
    /\ pin = None
    /\ pout = None
    /\ NoBatch
    /\ NoSweep

SynJobs == 1 .. syn.cfg.jobs

SynInFlight == {j \in SynJobs : syn.job[j].pc \in {"synth", "rest"}}

\* A pool thread takes the oldest queued future and calls run_job.
SynDispatch(j) ==
    /\ mode = "seed"
    /\ j \in SynJobs
    /\ syn.job[j].pc = "queued"
    /\ \A k \in SynJobs : syn.job[k].pc = "queued" => j <= k
    /\ Cardinality(SynInFlight) < syn.cfg.concurrency
    /\ syn' = [syn EXCEPT !.job[j].pc = "synth"]
    /\ UNCHANGED <<mode, pin, pout, batchVars, sweepVars>>

\* synthesize_text: the thread of job j draws its next sentence; after
\* paragraphs * sentences_per_paragraph sentences the text is complete.
\* (A thread switch between the three choices of one sentence is left out.)
SynSentence(j) ==
    /\ mode = "seed"
    /\ j \in SynJobs
    /\ syn.job[j].pc = "synth"
    /\ LET r == random_sentence(syn.rng)
           text == Append(syn.job[j].text, r.sentence)
           n == syn.cfg.paragraphs * SentencesPerParagraph
       IN  syn' = [syn EXCEPT !.rng = r.rng,
                              !.job[j].text = text,
                              !.job[j].pc = IF Len(text) >= n THEN "rest"
                                                              ELSE "synth"]
    /\ UNCHANGED <<mode, pin, pout, batchVars, sweepVars>>

\* The rest of run_job (submission and polling) ends; the pool thread is
\* free again.
SynFinish(j) ==
    /\ mode = "seed"
    /\ j \in SynJobs
    /\ syn.job[j].pc = "rest"
    /\ syn' = [syn EXCEPT !.job[j].pc = "finished"]
    /\ UNCHANGED <<mode, pin, pout, batchVars, sweepVars>>

\* The first execution is over; the same configuration is executed again.
SynRerun ==
    /\ mode = "seed"
    /\ syn.exec = 1
    /\ \A j \in SynJobs : syn.job[j].pc = "finished"
    /\ syn' = [cfg |-> syn.cfg, exec |-> 2,
               first |-> [j \in SynJobs |-> syn.job[j].text]]
                  @@ SeededBatch(syn.cfg, syn.rng)
    /\ UNCHANGED <<mode, pin, pout, batchVars, sweepVars>>

NextSeed ==
    \/ \E j \in SynJobs : SynDispatch(j)
    \/ \E j \in SynJobs : SynSentence(j)
    \/ \E j \in SynJobs : SynFinish(j)
    \/ SynRerun

SpecSeed == InitSeed /\ [][NextSeed]_vars

(* ===================== src/perf/run_experiments.py ==================== *)
\* The distinct elements of a list: set(xs).
Elements(xs) == {xs[i] : i \in DOMAIN xs}

\* sorted(S) of a set of numbers: ascending.
RECURSIVE Ascending(_)
Ascending(S) ==
    IF S = {} THEN <<>>
    ELSE LET m == CHOOSE x \in S : \A y \in S : x <= y
         IN  <<m>> \o Ascending(S \ {m})

\* x or y, for x an optional integer: None and 0 are false.
Truthy(x) == x # Absent /\ x[1] # 0

\* A derivation that ignores the repetition index.
derive_seed_per_cell(base_seed, workers, paragraphs, run_idx) ==
    IF base_seed = Absent THEN Absent
    ELSE Some(base_seed[1] + workers * 1000 + paragraphs * 100)

\* _derive_seed
derive_seed(base_seed, workers, paragraphs, run_idx) ==
    IF base_seed = Absent THEN Absent
    ELSE Some(base_seed[1] + workers * 1000 + paragraphs * 100 + run_idx)

(* --------------------------- compute_summary -------------------------- *)
\* A quotient in lowest terms, so that equal numbers are equal records.
RECURSIVE Gcd(_, _)
Gcd(a, b) == IF b = 0 THEN a ELSE Gcd(b, a % b)

Reduced(f) ==
    LET g == Gcd(f.num, f.den) IN
    IF g = 0 THEN f ELSE Frac(f.num \div g, f.den \div g)

\* a/b + c/d, and statistics.mean of a list of quotients.
FracAdd(a, b) ==
    Reduced(Frac(a.num * b.den + b.num * a.den, a.den * b.den))

RECURSIVE FracSum(_)
FracSum(fs) == IF fs = <<>> THEN Zero ELSE FracAdd(Head(fs), FracSum(Tail(fs)))

Mean(fs) == LET s == FracSum(fs) IN Reduced(Frac(s.num, s.den * Len(fs)))

\* A grouping key that forgets the workload size.
GroupKeyWorkersOnly(row) == <<row.workers, 0>>

\* (row["workers"], row["paragraphs"])
GroupKey(row) == <<row.workers, row.paragraphs>>

\* Tuple order of two keys.
KeyLess(a, b) == a[1] < b[1] \/ (a[1] = b[1] /\ a[2] < b[2])

\* sorted(grouped.items()): the keys ascending.
RECURSIVE SortedKeys(_)
SortedKeys(K) ==
    IF K = {} THEN <<>>
    ELSE LET m == CHOOSE x \in K : \A y \in K \ {x} : KeyLess(x, y)
         IN  <<m>> \o SortedKeys(K \ {m})

Column(rows, field) == [i \in DOMAIN rows |-> rows[i][field]]

compute_summary(rows) ==
    LET keys == SortedKeys({GroupKey(rows[i]) : i \in DOMAIN rows})
        Group(key) == LET InGroup(row) == GroupKey(row) = key
                      IN  SelectSeq(rows, InGroup)
    IN  [g \in DOMAIN keys |->
            LET grp == Group(keys[g]) IN
            [workers |-> keys[g][1],
             paragraphs |-> keys[g][2],
             runs |-> Len(grp),
             avg_throughput |-> Mean(Column(grp, "throughput")),
             avg_latency |-> Mean(Column(grp, "avg_latency")),
             avg_p95_latency |-> Mean(Column(grp, "p95_latency"))]]

(* ------------------------------- main --------------------------------- *)
\* Worker counts are drawn from 1 .. MaxWorkers, paragraph counts from
\* 1 .. MaxParagraphs, and --runs from RunCounts.
MaxWorkers == 2
MaxParagraphs == 2
RunCounts == {0, 1, 2}

\* The row execute_setting builds from the StressResult of one batch
\* (without the timestamp and the parameters copied from the command line).
Row(worker_count, paragraph_count, run_idx, cfg, result) ==
    [workers |-> worker_count,
     paragraphs |-> paragraph_count,
     run_index |-> run_idx,
     jobs |-> cfg.jobs,
     successes |-> Len(success_runs(result)),
     failures |-> Len(failure_runs(result)),
     throughput |-> throughput(result),
     avg_latency |-> avg_latency(result),
     p95_latency |-> Reduced(Frac(p95_latency(result), 100)),
     total_duration |-> result.total_duration,
     concurrency |-> cfg.concurrency]

\* The StressResult of a batch of one job, where the sweep does not follow
\* the batch step by step: the job succeeded, or it failed.
StressResults ==
    {[total_duration |-> 2, runs |-> <<SucceededRun("job-1", 1, 1)>>],
     [total_duration |-> 2,
      runs |-> <<FailedRun(Exc("TimeoutError", PollTimeoutMsg))>>]}

\* The lists a command line gives: one or two numbers, in any order.
ArgLists(max) == UNION {[1 .. n -> 1 .. max] : n \in 1 .. 2}

\* stress_base: the StressConfig every batch of the sweep is built from.
StressBase(seed) ==
    [jobs |-> 1, concurrency |-> 1, poll_interval |-> 1, poll_timeout |-> 1,
     request_timeout |-> 1, seed |-> seed]

\* main up to the first call of execute_setting, for command lines args.
InitMain(args) ==
    /\ \E wc \in args.worker_counts, ps \in args.paragraphs,
          r \in args.runs, no_scale \in args.no_scale,
          psw \in args.paragraph_sweep_workers, seed \in args.seed :
          ecfg = [args_worker_counts |-> wc,
                  args_paragraphs |-> ps,
                  worker_counts |-> Ascending(Elements(wc)),
                  paragraphs |-> Ascending(Elements(ps)),
                  runs_per_setting |-> r,
                  scale_workers |-> ~no_scale,
                  paragraph_sweep_workers |-> psw,
                  stress_base |-> StressBase(seed)]
    /\ opc = "ensure_scale"
    /\ cell = [sweep |-> "workers", i |-> 1, run_idx |-> 0]
    /\ current = Absent
    /\ setting_results = <<>>
    /\ sweep_results = <<>>
    /\ results = <<>>
    /\ csv = <<>>
    /\ calls = <<>>
    /\ batches = <<>>
    /\ summary = None
    /\ pin = None
    /\ pout = None
    /\ NoSynthesis
    /\ NoBatch

\* Every command line within the bounds; the sweep takes a batch as one step.
InitSweep ==
    /\ mode = "sweep"
    /\ InitMain([worker_counts |-> ArgLists(MaxWorkers),
                 paragraphs |-> ArgLists(MaxParagraphs),
                 runs |-> RunCounts,
                 no_scale |-> BOOLEAN,
                 paragraph_sweep_workers |->
                     {Absent} \cup {Some(w) : w \in 0 .. MaxWorkers},
                 seed |-> {Absent, Some(1)}])

\* fixed_workers = args.paragraph_sweep_workers or worker_counts[-1]
fixed_workers ==
    IF Truthy(ecfg.paragraph_sweep_workers)
        THEN ecfg.paragraph_sweep_workers[1]
        ELSE ecfg.worker_counts[Len(ecfg.worker_counts)]

\* The arguments of the current execute_setting call.
worker_count ==
    IF cell.sweep = "workers" THEN ecfg.worker_counts[cell.i]
                              ELSE fixed_workers

paragraph_count ==
    IF cell.sweep = "workers" THEN ecfg.paragraphs[1]
                              ELSE ecfg.paragraphs[cell.i]

\* The list the current sweep iterates over.
SweepList ==
    IF cell.sweep = "workers" THEN ecfg.worker_counts ELSE ecfg.paragraphs

\* An ensure_scale that never finds the cluster at the requested size.
NeverAtScale(w) == FALSE

\* scaler_state["current"] == worker_count
AtScale(w) == current = Some(w)

\* ensure_scale up to the call of scale_cluster.
EnsureScale ==
    /\ opc = "ensure_scale"
    /\ IF ~ecfg.scale_workers \/ AtScale(worker_count)
          THEN /\ opc' = "run"
               /\ calls' = calls
          ELSE /\ opc' = "scaling"
               /\ calls' = Append(calls, [workers |-> worker_count,
                                          returned |-> "pending"])
    /\ UNCHANGED <<mode, pin, pout, syn, batchVars, ecfg, cell, current,
                   setting_results, sweep_results, results, csv, batches,
                   summary>>

\* subprocess.run(cmd) that does not check the exit status.
Unchecked(ok) == FALSE

\* subprocess.run(cmd, check=True) raises CalledProcessError when docker
\* compose exits with a non-zero status.
CheckRaises(ok) == ~ok

\* scale_cluster returns or raises; nothing in main catches the exception,
\* so raising ends the program.
ScaleReturns ==
    /\ opc = "scaling"
    /\ \E ok \in BOOLEAN :
          /\ calls' = [calls EXCEPT ![Len(calls)].returned =
                                        IF ok THEN "ok" ELSE "failed"]
          /\ opc' = IF CheckRaises(ok) THEN "failed" ELSE "settling"
    /\ UNCHANGED <<mode, pin, pout, syn, batchVars, ecfg, cell, current,
                   setting_results, sweep_results, results, csv, batches,
                   summary>>

\* time.sleep(scale_wait) is over; the new count is remembered.
Settle ==
    /\ opc = "settling"
    /\ current' = Some(worker_count)
    /\ opc' = "run"
    /\ UNCHANGED <<mode, pin, pout, syn, batchVars, ecfg, cell, calls,
                   setting_results, sweep_results, results, csv, batches,
                   summary>>

\* cfg of the next batch: stress_base with its paragraphs and seed replaced.
BatchConfig ==
    [ecfg.stress_base EXCEPT
        !.seed = derive_seed(ecfg.stress_base.seed, worker_count,
                             paragraph_count, cell.run_idx)]

\* What run_stress_test(cfg) was called with, and whether it reseeded.
BatchCall(cfg) ==
    [workers |-> worker_count, paragraphs |-> paragraph_count,
     run_idx |-> cell.run_idx, seed |-> cfg.seed,
     reseeded |-> Reseeds(cfg.seed)]

\* The loop of execute_setting has another repetition to run.
MoreRuns == cell.run_idx < ecfg.runs_per_setting

\* The row of the batch is written to the CSV file and kept.
Record(cfg, result) ==
    LET row == Row(worker_count, paragraph_count, cell.run_idx, cfg, result)
    IN  /\ csv' = Append(csv, row)
        /\ setting_results' = Append(setting_results, row)
        /\ opc' = "pause"

\* One repetition, the batch taken as a single step.
RunBatch ==
    /\ mode = "sweep"
    /\ opc = "run"
    /\ MoreRuns
    /\ batches' = Append(batches, BatchCall(BatchConfig))
    /\ \E result \in StressResults : Record(BatchConfig, result)
    /\ UNCHANGED <<mode, pin, pout, syn, batchVars, ecfg, cell, current,
                   calls, sweep_results, results, summary>>

\* time.sleep(pause_seconds); the loop goes to the next run_idx.
Pause ==
    /\ opc = "pause"
    /\ cell' = [cell EXCEPT !.run_idx = cell.run_idx + 1]
    /\ opc' = "run"
    /\ UNCHANGED <<mode, pin, pout, syn, batchVars, ecfg, current, calls,
                   setting_results, sweep_results, results, csv, batches,
                   summary>>

\* execute_setting returns its rows to the sweep, which goes to its next
\* setting; after its last setting the sweep returns its rows to main,
\* which starts the paragraph sweep or, after it, computes the summary.
ReturnSetting ==
    /\ opc = "run"
    /\ ~MoreRuns
    /\ setting_results' = <<>>
    /\ LET rows == sweep_results \o setting_results IN
       IF cell.i < Len(SweepList)
          THEN /\ sweep_results' = rows
               /\ cell' = [cell EXCEPT !.i = cell.i + 1, !.run_idx = 0]
               /\ opc' = "ensure_scale"
               /\ UNCHANGED <<results, summary>>
       ELSE /\ sweep_results' = <<>>
            /\ results' = results \o rows
            /\ IF cell.sweep = "workers"
                  THEN /\ cell' = [sweep |-> "paragraphs", i |-> 1,
                                   run_idx |-> 0]
                       /\ opc' = "ensure_scale"
                       /\ summary' = summary
                  ELSE /\ cell' = cell
                       /\ opc' = "done"
                       /\ summary' = IF results' # <<>>
                                        THEN compute_summary(results')
                                        ELSE None
    /\ UNCHANGED <<mode, pin, pout, syn, batchVars, ecfg, current, calls,
                   csv, batches>>

(* ------------------- compute_summary on drawn rows -------------------- *)
\* Rows as execute_setting builds them, for every setting within the bounds.
SummaryRows ==
    {Row(w, p, 0, StressBase(Absent), result) :
        w \in 1 .. MaxWorkers, p \in 1 .. MaxParagraphs,
        result \in StressResults}

InitSummary ==
    /\ mode = "summary"
    /\ pin \in UNION {[1 .. n -> SummaryRows] : n \in 0 .. MaxLen}
    /\ pout = None
    /\ NoBatch
    /\ NoSynthesis
    /\ NoSweep

SummaryCall ==
    /\ mode = "summary"
    /\ mode' = "summary_returned"
    /\ pout' = compute_summary(pin)
    /\ UNCHANGED <<pin, batchVars, syn, sweepVars>>

SpecSummary == InitSummary /\ [][SummaryCall]_vars

NextSweep ==
    \/ EnsureScale
    \/ ScaleReturns
    \/ Settle
    \/ RunBatch
    \/ Pause
    \/ ReturnSetting

SpecSweep == InitSweep /\ [][NextSweep]_vars

(* ------------- the sweep with its batches run step by step ------------ *)
\* --worker-counts 1 2 --paragraphs 1 --runs 1, with and without scaling;
\* the batches are those of run_stress_test, one job each.
InitSweepBatch ==
    /\ mode = "batch"
    /\ InitMain([worker_counts |-> {<<1, 2>>},
                 paragraphs |-> {<<1>>},
                 runs |-> {1},
                 no_scale |-> BOOLEAN,
                 paragraph_sweep_workers |-> {Absent},
                 seed |-> {Absent}])

\* execute_setting calls run_stress_test(cfg): the futures are queued.
StartBatch ==
    /\ mode = "batch"
    /\ opc = "run"
    /\ MoreRuns
    /\ batches' = Append(batches, BatchCall(BatchConfig))
    /\ opc' = "in_batch"
    /\ config' = [jobs |-> BatchConfig.jobs,
                  concurrency |-> BatchConfig.concurrency,
                  poll_interval |-> BatchConfig.poll_interval,
                  poll_timeout |-> BatchConfig.poll_timeout,
                  request_timeout |-> BatchConfig.request_timeout]
    /\ bpc' = "running"
    /\ job' = [j \in 1 .. BatchConfig.jobs |-> QueuedJob]
    /\ runs' = <<>>
    /\ clock' = 0
    /\ total_duration' = 0
    /\ UNCHANGED <<mode, pin, pout, syn, ecfg, cell, current, calls,
                   setting_results, sweep_results, results, csv, summary>>

\* A run_stress_test that hands back its result while the batch runs.
StressTestRunning == bpc \in {"running", "returned"}

\* run_stress_test has left the with block of the pool and returned.
StressTestReturned == bpc = "returned"

\* The StressResult run_stress_test returns.
Result == [total_duration |-> total_duration,
           runs |-> [i \in DOMAIN runs |-> runs[i].run]]

\* execute_setting gets the StressResult and records its row.
FinishBatch ==
    /\ opc = "in_batch"
    /\ StressTestReturned
    /\ Record(BatchConfig, Result)
    /\ UNCHANGED <<mode, pin, pout, syn, batchVars, ecfg, cell, current,
                   calls, sweep_results, results, batches, summary>>

NextSweepBatch ==
    \/ EnsureScale
    \/ ScaleReturns
    \/ Settle
    \/ StartBatch
    \/ NextBatch
    \/ FinishBatch
    \/ Pause
    \/ ReturnSetting

SpecSweepBatch == InitSweepBatch /\ [][NextSweepBatch]_vars

(* --------------------- _derive_seed on drawn inputs ------------------- *)
\* Workload sizes of the repetitions whose seeds are compared.
MaxWorkload == 11

\* A repetition of a sweep: its worker count, workload size and run index.
Repetitions ==
    [workers : 1 .. MaxWorkers, paragraphs : 1 .. MaxWorkload,
     run_idx : 0 .. 1]

InitDerive ==
    /\ mode = "derive"
    /\ pin \in [base_seed : {Absent, Some(0), Some(1)},
                 a : Repetitions, b : Repetitions]
    /\ pout = None
    /\ NoBatch
    /\ NoSynthesis
    /\ NoSweep

\* execute_setting derives the seeds of the two repetitions.
DeriveCall ==
    /\ mode = "derive"
    /\ mode' = "derive_returned"
    /\ pout' = [a |-> derive_seed(pin.base_seed, pin.a.workers,
                                  pin.a.paragraphs, pin.a.run_idx),
                b |-> derive_seed(pin.base_seed, pin.b.workers,
                                  pin.b.paragraphs, pin.b.run_idx)]
    /\ UNCHANGED <<pin, batchVars, syn, sweepVars>>

SpecDerive == InitDerive /\ [][DeriveCall]_vars

(* ============================ claims ================================== *)

\* C1: in every batch at most config.concurrency run_job invocations are in
\* flight at any instant, no future's outcome is collected twice, and the
\* returned runs hold exactly config.jobs outcomes, one per future.
C1_BoundedPoolAllOutcomes ==
    /\ Cardinality(InFlight) <= config.concurrency
    /\ \A j \in Jobs : Cardinality({i \in DOMAIN runs : runs[i].fut = j}) <= 1
    /\ bpc = "returned" =>
          /\ Len(runs) = config.jobs
          /\ \A j \in Jobs : \E i \in DOMAIN runs : runs[i].fut = j

\* A returned batch with fewer pool threads than jobs whose outcomes were
\* collected out of submission order.
C1_Witness ==
    /\ bpc = "returned"
    /\ config.concurrency < config.jobs
    /\ Len(runs) = config.jobs
    /\ runs[1].fut # 1

\* C2: run_job never raises: no future ends with an exception, the batch is
\* never aborted by a job, and a finished job holds a JobRun.
C2_RunJobNeverRaises ==
    /\ bpc # "aborted"
    /\ \A j \in Jobs :
          /\ job[j].pc # "raised"
          /\ job[j].pc = "done" => job[j].run # NoRun

\* A returned batch in which one job failed on a missing identifier (a
\* RuntimeError) and another one succeeded.
C2_Witness ==
    /\ bpc = "returned"
    /\ \E i \in DOMAIN runs : runs[i].run.error = MissingJobIdMsg
    /\ \E i \in DOMAIN runs : runs[i].run.success

ValidOutcome(r) ==
    \/ r.success /\ r.error = None
    \/ ~r.success /\ r.error \notin {None, ""}

\* C3: every JobRun produced by run_job has either success = TRUE and no
\* error, or success = FALSE and a non-empty error string.
C3_SuccessXorError ==
    /\ \A j \in Jobs : job[j].pc = "done" => ValidOutcome(job[j].run)
    /\ \A i \in DOMAIN runs : ValidOutcome(runs[i].run)

\* A job that failed inside wait_for_job, with its error recorded.
C3_Witness ==
    \E j \in Jobs :
        /\ job[j].pc = "done"
        /\ job[j].gets >= 1
        /\ ~job[j].run.success
        /\ job[j].run.error \notin {None, ""}

\* C4: a status of the aggregator other than 200, 404 and 503 fails the job
\* at once: after such an answer the job is finished with success = FALSE.
C4_OtherStatusFailsAtOnce ==
    \A j \in Jobs :
        (job[j].last.kind = "status" /\ job[j].last.code \notin {200, 404, 503})
            => (job[j].pc = "done" /\ ~job[j].run.success)

Transient(r) == r.kind = "status" /\ r.code \in {404, 503}

C5_State ==
    \A j \in Jobs :
        LET jr == job[j] IN
        /\ (jr.last.kind = "status" /\ jr.last.code = 200)
              => (jr.pc = "done" /\ jr.run.success)
        /\ (jr.pc = "done" /\ jr.run.success)
              => /\ jr.run.submit_seconds = jr.submit_duration
                 /\ jr.run.completion_seconds = jr.submit_duration + jr.elapsed
        /\ (jr.pc = "done" /\ jr.gets >= 1 /\ jr.transients = jr.gets)
              => (jr.run.error = PollTimeoutMsg
                    /\ jr.elapsed >= config.poll_timeout)

C5_Step(j) ==
    /\ (job[j].pc = "poll_req" /\ job'[j].pc # "poll_req" /\ Transient(job'[j].last))
          => (job'[j].pc = "poll_sleep" /\ job'[j].t = 0)
    /\ (job[j].pc = "poll_sleep" /\ job'[j].pc # "poll_sleep")
          => (job[j].t >= config.poll_interval /\ job'[j].pc = "poll_check")
    /\ (job[j].pc = "poll_check" /\ job[j].elapsed < config.poll_timeout
            /\ job'[j] # job[j])
          => (job'[j].pc = "poll_req" /\ job'[j].gets = job[j].gets + 1)

\* C5: a 404/503 answer never fails the job: it is followed by a sleep of
\* poll_interval and, before the deadline, by another query; a job that got
\* only such answers fails by the deadline alone; a 200 answer ends the job
\* with success = TRUE, submit_seconds the time spent in submit_job and
\* completion_seconds that time plus the time spent in the poll loop.
C5_TransientThenSuccess ==
    []C5_State /\ [][\A j \in Jobs : C5_Step(j)]_vars

\* A job that was answered 404/503 to every query but the last and then
\* 200, after a submission and a poll loop that both took time.
C5_Witness ==
    \E j \in Jobs :
        /\ job[j].pc = "done"
        /\ job[j].run.success
        /\ job[j].transients >= 1
        /\ job[j].transients = job[j].gets - 1
        /\ job[j].submit_duration >= 1
        /\ job[j].elapsed >= 1

C6_State ==
    \A j \in Jobs :
        LET jr == job[j] IN
        /\ jr.pc = "poll_req" => jr.elapsed - jr.t < config.poll_timeout
        /\ jr.elapsed < config.poll_timeout + config.request_timeout
                            + config.poll_interval
        /\ (jr.pc = "done" /\ jr.run.error = PollTimeoutMsg)
              => (~jr.run.success /\ jr.elapsed >= config.poll_timeout)

C6_Step(j) ==
    (job[j].pc = "poll_check" /\ job[j].elapsed >= config.poll_timeout
        /\ job'[j] # job[j])
      => /\ job'[j].pc = "done"
         /\ ~job'[j].run.success
         /\ job'[j].run.error = PollTimeoutMsg
         /\ job'[j].gets = job[j].gets

\* C6: no status query is sent once poll_timeout has passed since the start
\* of wait_for_job; the first loop test after the deadline ends the job with
\* success = FALSE and the timeout error; and, the threads and the clock
\* being fair, every job produces its JobRun and the batch returns.
C6_PollLoopTerminates ==
    /\ []C6_State
    /\ [][\A j \in Jobs : C6_Step(j)]_vars
    /\ <>(bpc = "returned")

\* A job that polled, never saw completion and ended on the deadline.
C6_Witness ==
    \E j \in Jobs :
        /\ job[j].pc = "done"
        /\ job[j].gets >= 1
        /\ job[j].run.error = PollTimeoutMsg

\* The producer's answer is a 2xx JSON object with a non-empty jobId.
CarriesJobId(r) ==
    /\ r.kind = "status" /\ r.code >= 200 /\ r.code < 300
    /\ r.json /\ r.jobId \notin {None, ""}

\* The producer's answer is a 2xx JSON object without a (non-empty) jobId.
LacksJobId(r) ==
    /\ r.kind = "status" /\ r.code >= 200 /\ r.code < 300
    /\ r.json /\ r.jobId \in {None, ""}

SubmissionFailed(jr) == jr.sreply # NoReply /\ ~CarriesJobId(jr.sreply)

\* C7 as stated: whenever the submission brings no identifier (missing
\* identifier, or transport/protocol error) the job is finished after one
\* POST and no status query, with success = FALSE and an error that mentions
\* the missing identifier.
C7_Original ==
    \A j \in Jobs :
        SubmissionFailed(job[j])
            => /\ job[j].pc = "done"
               /\ job[j].posts = 1
               /\ job[j].gets = 0
               /\ ~job[j].run.success
               /\ job[j].run.error = MissingJobIdMsg

\* C7 amended: whenever the submission brings no identifier the job is
\* finished after one POST and no status query, with success = FALSE and a
\* non-empty error; the error mentions the missing identifier when the
\* producer answered with a JSON object that has no identifier.
C7_SubmissionFailureIsFinal ==
    \A j \in Jobs :
        SubmissionFailed(job[j])
            => /\ job[j].pc = "done"
               /\ job[j].posts = 1
               /\ job[j].gets = 0
               /\ ~job[j].run.success
               /\ job[j].run.error \notin {None, ""}
               /\ LacksJobId(job[j].sreply) => job[j].run.error = MissingJobIdMsg

\* A job whose producer answered 2xx without an identifier.
C7_Witness ==
    \E j \in Jobs : job[j].pc = "done" /\ LacksJobId(job[j].sreply)

\* The i-th smallest (i from 0) of the values vals[j], j in I, with
\* repetitions: fewer than i + 1 are below it, at least i + 1 are not above.
OrderStat(vals, I, i) ==
    CHOOSE v \in {vals[j] : j \in I} :
        /\ Cardinality({j \in I : vals[j] < v}) <= i
        /\ i < Cardinality({j \in I : vals[j] <= v})

\* 100 times the linear-interpolation percentile of the values vals[j], j in
\* I (I not empty): rank k = (n - 1) * pct / 100, the floor and the ceiling
\* order statistics weighted by the fractional part of k.
StdPercentile100(vals, I, pct) ==
    LET n == Cardinality(I)
        k100 == (n - 1) * pct
        lo == k100 \div 100
        frac == k100 % 100
        hi == IF frac = 0 THEN lo ELSE lo + 1
    IN  OrderStat(vals, I, lo) * (100 - frac) + OrderStat(vals, I, hi) * frac

SuccessIdx(result) == {i \in DOMAIN result.runs : result.runs[i].success}

RECURSIVE SumOver(_, _)
SumOver(vals, I) ==
    IF I = {} THEN 0
    ELSE LET i == CHOOSE x \in I : TRUE IN vals[i] + SumOver(vals, I \ {i})

\* C8: throughput, avg_latency and p95_latency are 0 for a result without a
\* success, throughput is 0 for total_duration 0, and otherwise throughput
\* is successes / total_duration and the latencies are the mean and the
\* 95th percentile of the completion times of the successful runs alone.
C8_MetricsOverSuccesses ==
    mode = "metrics_returned" =>
        LET S == SuccessIdx(pin)
            d == Durations(pin.runs)
        IN  /\ S = {} => /\ pout.throughput.num = 0
                         /\ pout.avg_latency.num = 0
                         /\ pout.p95_latency = 0
            /\ pin.total_duration = 0 => pout.throughput.num = 0
            /\ pout.throughput.den # 0 /\ pout.avg_latency.den # 0
            /\ (S # {} /\ pin.total_duration # 0) =>
                  pout.throughput.num * pin.total_duration
                      = Cardinality(S) * pout.throughput.den
            /\ S # {} =>
                  /\ pout.avg_latency.num * Cardinality(S)
                        = SumOver(d, S) * pout.avg_latency.den
                  /\ pout.p95_latency = StdPercentile100(d, S, 95)

\* Metrics of a result with successes of different completion times and a
\* failure, over a batch that took time.
C8_Witness ==
    /\ mode = "metrics_returned"
    /\ pin.total_duration > 0
    /\ pout.successes >= 2
    /\ pout.failures >= 1
    /\ pout.avg_latency.num > 0
    /\ pout.p95_latency > 0

MinOf(values) == CHOOSE v \in {values[i] : i \in DOMAIN values} :
                    \A i \in DOMAIN values : v <= values[i]

MaxOf(values) == CHOOSE v \in {values[i] : i \in DOMAIN values} :
                    \A i \in DOMAIN values : v >= values[i]

\* C9: for a non-empty sample in any order, percentile at 0 is the minimum,
\* at 100 the maximum, and at 50 for an odd length the middle element of
\* the sorted sample.
C9_PercentileEnds ==
    (mode = "percentile_returned" /\ pin.values # <<>>) =>
        LET n == Len(pin.values) IN
        /\ pin.pct = 0 => pout.value100 = 100 * MinOf(pin.values)
        /\ pin.pct = 100 => pout.value100 = 100 * MaxOf(pin.values)
        /\ (pin.pct = 50 /\ n % 2 = 1) =>
              pout.value100
                  = 100 * OrderStat(pin.values, DOMAIN pin.values, (n - 1) \div 2)

\* The median of an unsorted sample of three different values.
C9_Witness ==
    /\ mode = "percentile_returned"
    /\ pin.pct = 50
    /\ Len(pin.values) = 3
    /\ pin.values[1] > pin.values[2]
    /\ pin.values[3] > pin.values[1]
    /\ pout.value100 = 100 * pin.values[1]

\* C10: percentile is the linear-interpolation percentile for every sample
\* and every pct in 0 .. 100, it is 0 for the empty sample, and it reads
\* indices of the sample only.
C10_LinearInterpolation ==
    mode = "percentile_returned" =>
        LET n == Len(pin.values) IN
        /\ n = 0 => pout.value100 = 0
        /\ n > 0 => pout.value100
                       = StdPercentile100(pin.values, DOMAIN pin.values, pin.pct)
        /\ pout.reads \subseteq 0 .. n - 1

\* A percentile strictly between two different order statistics.
C10_Witness ==
    /\ mode = "percentile_returned"
    /\ Len(pin.values) = 2
    /\ pin.values[1] = 2
    /\ pin.values[2] = 0
    /\ pin.pct = 95
    /\ pout.value100 = 190

\* C11: two executions of the same configuration with the same seed give
\* every job the same text, whatever the interleaving of the pool threads.
C11_SameSeedSameTexts ==
    (mode = "seed" /\ syn.exec = 2) =>
        \A j \in SynJobs :
            syn.job[j].pc \in {"rest", "finished"}
                => syn.job[j].text = syn.first[j]

\* The setting before the current one exists and has the same worker count.
SameCountAsPrevious ==
    IF cell.sweep = "workers"
        THEN cell.i > 1 /\ ecfg.worker_counts[cell.i - 1] = worker_count
        ELSE cell.i > 1
                \/ ecfg.worker_counts[Len(ecfg.worker_counts)] = worker_count

C12_State ==
    /\ opc \in {"scaling", "settling"} =>
          /\ ecfg.scale_workers
          /\ calls # <<>>
          /\ calls[Len(calls)].workers = worker_count
          /\ current # Some(worker_count)
    /\ SameCountAsPrevious => opc \notin {"scaling", "settling"}

C12_Step ==
    /\ Len(calls') > Len(calls) =>
          current # Some(calls'[Len(calls')].workers)
    /\ current' # current =>
          /\ opc = "settling"
          /\ calls[Len(calls)].returned = "ok"
          /\ current' = Some(calls[Len(calls)].workers)

\* C12: with scaling enabled, scale_cluster is never called with a target
\* equal to the remembered worker count; the remembered count becomes the
\* target only after the scaling call has returned and the settle wait is
\* over; so a setting with the same worker count as the one before it
\* causes no scaling call.
C12_NoRedundantScaling == []C12_State /\ [][C12_Step]_vars

\* The second setting of the paragraph sweep is measured at the worker
\* count the worker sweep ended with, after one scaling call per count.
C12_Witness ==
    /\ mode = "sweep"
    /\ ecfg.scale_workers
    /\ cell.sweep = "paragraphs"
    /\ cell.i = 2
    /\ opc = "pause"
    /\ Len(ecfg.worker_counts) = 2
    /\ current = Some(worker_count)
    /\ Len(calls) = 2

\* The run_stress_test calls made for the setting of call number i.
CallsOfCell(i) ==
    {k \in DOMAIN batches : /\ batches[k].workers = batches[i].workers
                            /\ batches[k].paragraphs = batches[i].paragraphs}

\* C13: over a full run every (workers, paragraphs) setting is measured
\* exactly runs_per_setting times, the paragraph sweep not measuring again
\* the setting the worker sweep has measured, so every group of the summary
\* has runs = runs_per_setting (three groups with runs = 1 for two worker
\* counts, two workload sizes and one repetition).
C13_EachCellMeasuredOnce ==
    (mode = "sweep" /\ opc = "done") =>
        /\ \A i \in DOMAIN batches :
              Cardinality(CallsOfCell(i)) = ecfg.runs_per_setting
        /\ summary # None =>
              \A g \in DOMAIN summary :
                  summary[g].runs = ecfg.runs_per_setting

\* C14: the seed of a batch is a function of the base seed, the worker
\* count, the paragraph count and the repetition index alone; the
\* repetitions of one setting get pairwise different seeds; and without a
\* base seed the batch has no seed and does not reseed the generator.
C14_PerRunSeeds ==
    mode = "sweep" =>
        \A i \in DOMAIN batches :
            /\ batches[i].seed = Absent <=> ecfg.stress_base.seed = Absent
            /\ batches[i].reseeded <=> ecfg.stress_base.seed # Absent
            /\ \A k \in CallsOfCell(i) :
                  /\ batches[k].run_idx = batches[i].run_idx
                        => batches[k].seed = batches[i].seed
                  /\ (batches[k].run_idx # batches[i].run_idx
                        /\ ecfg.stress_base.seed # Absent)
                        => batches[k].seed # batches[i].seed

\* Two repetitions of one setting have run with two different seeds.
C14_Witness ==
    /\ mode = "sweep"
    /\ \E i, k \in DOMAIN batches :
          /\ k \in CallsOfCell(i)
          /\ batches[i].run_idx = 0
          /\ batches[k].run_idx = 1
          /\ batches[i].reseeded
          /\ batches[k].reseeded
          /\ batches[i].seed # batches[k].seed

\* The rows of a list that belong to group g of a summary.
RowsOfGroup(rows, g) ==
    {i \in DOMAIN rows : /\ rows[i].workers = g.workers
                         /\ rows[i].paragraphs = g.paragraphs}

\* The sum of one field over the rows I, as a quotient.
RECURSIVE FieldTotal(_, _, _)
FieldTotal(rows, I, field) ==
    IF I = {} THEN [num |-> 0, den |-> 1]
    ELSE LET i == CHOOSE x \in I : TRUE
             rest == FieldTotal(rows, I \ {i}, field)
             v == rows[i][field]
         IN  [num |-> v.num * rest.den + rest.num * v.den,
              den |-> v.den * rest.den]

\* m is the arithmetic mean of one field over the rows I.
IsMeanOf(m, rows, I, field) ==
    LET total == FieldTotal(rows, I, field) IN
    m.num * total.den * Cardinality(I) = total.num * m.den

\* C15: compute_summary partitions the rows by (workers, paragraphs): one
\* group per distinct key, every row in exactly one group, runs the number
\* of rows of the group, the three averages the arithmetic means over
\* exactly those rows, and the groups in ascending (workers, paragraphs)
\* order.
C15_SummaryPartition ==
    mode = "summary_returned" =>
        /\ \A i \in DOMAIN pin :
              Cardinality({g \in DOMAIN pout :
                              i \in RowsOfGroup(pin, pout[g])}) = 1
        /\ \A g \in DOMAIN pout :
              LET I == RowsOfGroup(pin, pout[g]) IN
              /\ I # {}
              /\ pout[g].runs = Cardinality(I)
              /\ IsMeanOf(pout[g].avg_throughput, pin, I, "throughput")
              /\ IsMeanOf(pout[g].avg_latency, pin, I, "avg_latency")
              /\ IsMeanOf(pout[g].avg_p95_latency, pin, I, "p95_latency")
        /\ \A g, h \in DOMAIN pout :
              g < h => \/ pout[g].workers < pout[h].workers
                       \/ /\ pout[g].workers = pout[h].workers
                          /\ pout[g].paragraphs < pout[h].paragraphs

\* Three rows, the first and the last of one setting with different
\* metrics, the middle one of a setting that sorts before it.
C15_Witness ==
    /\ mode = "summary_returned"
    /\ Len(pin) = 3
    /\ pin[1].workers = 2
    /\ pin[2].workers = 1
    /\ pin[3].workers = 2
    /\ pin[1].paragraphs = pin[3].paragraphs
    /\ pin[1].successes = 1
    /\ pin[3].successes = 0
    /\ Len(pout) = 2
    /\ pout[1].workers = 1
    /\ pout[2].runs = 2
    /\ pout[2].avg_throughput = [num |-> 1, den |-> 4]
    /\ pout[2].avg_latency = [num |-> 1, den |-> 1]

\* A scale_cluster call of the list cs has failed.
SomeCallFailed(cs) == \E i \in DOMAIN cs : cs[i].returned = "failed"

C16_State ==
    SomeCallFailed(calls) =>
        /\ opc = "failed"
        /\ calls[Len(calls)].returned = "failed"
        /\ current # Some(calls[Len(calls)].workers)

C16_Step ==
    /\ SomeCallFailed(calls') =>
          /\ Len(calls') = Len(calls)
          /\ UNCHANGED <<batches, csv, setting_results, sweep_results,
                         results, summary, current>>
    /\ SomeCallFailed(calls) => calls' = calls

\* C16: when a scale_cluster call fails the sweep stops: after the failing
\* call no batch is executed, no row is written or kept, no further scaling
\* call is made, and the remembered worker count is not changed by it.
C16_ScalingFailureAborts == []C16_State /\ [][C16_Step]_vars

\* The second scaling call of a run fails after rows of the first setting
\* were written.
C16_Witness ==
    /\ mode = "sweep"
    /\ opc = "failed"
    /\ Len(calls) = 2
    /\ calls[1].returned = "ok"
    /\ calls[2].returned = "failed"
    /\ current = Some(calls[1].workers)
    /\ Len(csv) = 2
    /\ Len(batches) = 2

\* The futures of the current batch that a pool thread takes in this step.
Dispatched == {j \in Jobs : job[j].pc = "queued" /\ job'[j].pc = "synth"}

C17_State ==
    /\ opc \in {"scaling", "settling"} => (InFlight = {} /\ bpc # "running")
    /\ (InFlight # {} \/ bpc = "running") => opc = "in_batch"

C17_Step ==
    /\ Len(calls') > Len(calls) => InFlight = {}
    /\ (opc = "in_batch" /\ bpc = "running" /\ Dispatched # {}) =>
          /\ calls # <<>> => calls[Len(calls)].returned = "ok"
          /\ ecfg.scale_workers => current = Some(worker_count)

\* C17: scaling and measuring never overlap: scale_cluster is called only
\* while no run_job is in flight, and no job of the next batch is
\* dispatched before the scaling call has returned and the settle wait is
\* over.
C17_ScalingSerializedWithBatches == []C17_State /\ [][C17_Step]_vars

\* The job of the second setting is in flight after the cluster was scaled
\* a second time, the first batch having run its job to the end.
C17_Witness ==
    /\ mode = "batch"
    /\ opc = "in_batch"
    /\ InFlight # {}
    /\ Len(calls) = 2
    /\ calls[2].returned = "ok"
    /\ current = Some(2)
    /\ Len(csv) = 1
    /\ csv[1].successes = 1

\* x is the n-th smallest element of the set S.
IsNthOf(x, n, S) == x \in S /\ Cardinality({y \in S : y < x}) = n - 1

\* The worker count the caller gave for the paragraph sweep, or else the
\* largest configured worker count.
C18_FixedWorkers ==
    IF ecfg.paragraph_sweep_workers # Absent
        THEN ecfg.paragraph_sweep_workers[1]
        ELSE CHOOSE w \in Elements(ecfg.args_worker_counts) :
                 \A v \in Elements(ecfg.args_worker_counts) : v <= w

\* C18: a full run visits first every configured worker count, ascending
\* and without duplicates, at the smallest configured workload size, then
\* every configured workload size, ascending, at the fixed worker count
\* (the caller's, or else the largest configured one); every setting runs
\* runs_per_setting batches with run indices 0, 1, ...; and every batch
\* yields exactly one row, written to the CSV file and kept in that order.
C18_SweepOrder ==
    (mode = "sweep" /\ opc = "done") =>
        LET W == Elements(ecfg.args_worker_counts)
            P == Elements(ecfg.args_paragraphs)
            R == ecfg.runs_per_setting
        IN  /\ Len(csv) = (Cardinality(W) + Cardinality(P)) * R
            /\ results = csv
            /\ Len(batches) = Len(csv)
            /\ \A k \in DOMAIN csv :
                  LET c == ((k - 1) \div R) + 1 IN
                  /\ csv[k].workers = batches[k].workers
                  /\ csv[k].paragraphs = batches[k].paragraphs
                  /\ csv[k].run_index = batches[k].run_idx
                  /\ csv[k].run_index = (k - 1) % R
                  /\ IF c <= Cardinality(W)
                        THEN /\ IsNthOf(csv[k].workers, c, W)
                             /\ IsNthOf(csv[k].paragraphs, 1, P)
                        ELSE /\ csv[k].workers = C18_FixedWorkers
                             /\ IsNthOf(csv[k].paragraphs,
                                        c - Cardinality(W), P)

\* C19: poll_timeout bounds the whole wait of a job: the time from the
\* start of wait_for_job until it returns or raises never exceeds
\* poll_timeout, and a job is reported successful only when its completion
\* was observed within poll_timeout of the start of polling.
C19_PollTimeoutBoundsWait ==
    mode = "batch" =>
        \A j \in Jobs :
            /\ job[j].elapsed <= config.poll_timeout
            /\ (job[j].pc = "done" /\ job[j].run.success)
                  => job[j].run.completion_seconds - job[j].run.submit_seconds
                        <= config.poll_timeout

\* The JobRun r carries nothing but the failure.
BlankFailure(r) ==
    /\ r.job_id = ""
    /\ r.submit_seconds = 0
    /\ r.completion_seconds = 0

\* C20: every JobRun with success = FALSE has an empty job_id and zero
\* submit_seconds and completion_seconds, whichever phase failed: a job
\* whose submission returned an identifier and whose polling then failed
\* or timed out is recorded like a job whose submission failed.
C20_FailedRunIsBlank ==
    mode = "batch" =>
        /\ \A j \in Jobs :
              (job[j].pc = "done" /\ ~job[j].run.success)
                  => BlankFailure(job[j].run)
        /\ \A i \in DOMAIN runs :
              ~runs[i].run.success => BlankFailure(runs[i].run)

\* A job whose submission took time and returned an identifier, and whose
\* polling then hit a hard failure, has ended as a blank failure.
C20_Witness ==
    /\ mode = "batch"
    /\ \E j \in Jobs :
          /\ job[j].pc = "done"
          /\ job[j].job_id # ""
          /\ job[j].submit_duration >= 1
          /\ job[j].gets >= 1
          /\ ~job[j].run.success
          /\ job[j].run.error # PollTimeoutMsg
          /\ BlankFailure(job[j].run)

\* The status query failed below HTTP: no connection, or no answer in time.
TransportError(r) == r.kind \in {"urlerror", "sockettimeout"}

\* C21: a transport-level error on a status query (connection refused,
\* request timeout, any URLError that is not an HTTP status error) is
\* treated like a transient status: it never ends the job, which sleeps and
\* queries again, so a job whose last query failed that way can only end
\* with the poll-timeout failure.
C21_TransportErrorIsTransient ==
    mode = "batch" =>
        \A j \in Jobs :
            (job[j].pc \in {"done", "raised"} /\ TransportError(job[j].last))
                => /\ job[j].pc = "done"
                   /\ ~job[j].run.success
                   /\ job[j].run.error = PollTimeoutMsg

\* C22: with a base seed, two repetitions that differ in worker count,
\* workload size or run index get different seeds from _derive_seed.
C22_DeriveSeedInjective ==
    (mode = "derive_returned" /\ pin.base_seed # Absent /\ pin.a # pin.b)
        => pout.a # pout.b

====
